---- MODULE Spec2Model ----
(***************************************************************************)
(* Model of src/main3.cpp: the vehicle insurance risk console program.     *)
(*                                                                         *)
(*  - the scorer (CarRiskCalculator) and the categorizer compute on C++    *)
(*    `double` values.  They are modelled bit-exactly: a double is a pair  *)
(*    (mantissa, exponent), every literal and every operation is rounded   *)
(*    to nearest-even at 53 bits, as IEEE-754 binary64 does;               *)
(*  - the Assessment Record is the std::map riskCategories;                *)
(*  - main() is a sequential process reading std::cin line by line.        *)
(***************************************************************************)
EXTENDS Integers, Sequences, FiniteSets, TLC

(***************************************************************************)
(* Unbounded naturals.  TLC's integers are 32 bits wide, a double's        *)
(* mantissa has 53 bits and a product of two has 106, so naturals are      *)
(* little-endian sequences of limbs in radix 2^14, without leading zero    *)
(* limbs (zero is the empty sequence).                                     *)
(***************************************************************************)
Radix == 2^14
LimbBits == 14

RECURSIVE Trim(_)
Trim(a) ==
    IF a = <<>> THEN <<>>
    ELSE IF a[Len(a)] = 0 THEN Trim(SubSeq(a, 1, Len(a) - 1))
    ELSE a

RECURSIVE BigOfInt(_)
BigOfInt(n) == IF n = 0 THEN <<>> ELSE <<n % Radix>> \o BigOfInt(n \div Radix)

RECURSIVE AddCarry(_, _, _)
AddCarry(a, b, c) ==
    IF a = <<>> /\ b = <<>> THEN (IF c = 0 THEN <<>> ELSE <<c>>)
    ELSE LET x == IF a = <<>> THEN 0 ELSE Head(a)
             y == IF b = <<>> THEN 0 ELSE Head(b)
             s == x + y + c
         IN  <<s % Radix>> \o AddCarry(IF a = <<>> THEN a ELSE Tail(a),
                                       IF b = <<>> THEN b ELSE Tail(b),
                                       s \div Radix)

BigAdd(a, b) == AddCarry(a, b, 0)

\* a * k + c  for a small factor k <= Radix and carry c < Radix
RECURSIVE MulSmallCarry(_, _, _)
MulSmallCarry(a, k, c) ==
    IF a = <<>> THEN (IF c = 0 THEN <<>> ELSE <<c>>)
    ELSE LET s == Head(a) * k + c
         IN  <<s % Radix>> \o MulSmallCarry(Tail(a), k, s \div Radix)

BigMulSmall(a, k) == Trim(MulSmallCarry(a, k, 0))

RECURSIVE BigMul(_, _)
BigMul(a, b) ==
    IF a = <<>> \/ b = <<>> THEN <<>>
    ELSE Trim(BigAdd(MulSmallCarry(a, Head(b), 0), <<0>> \o BigMul(a, Tail(b))))

\* -1, 0, 1 as a < b, a = b, a > b
RECURSIVE CmpFromTop(_, _, _)
CmpFromTop(a, b, i) ==
    IF i = 0 THEN 0
    ELSE IF a[i] < b[i] THEN -1
    ELSE IF a[i] > b[i] THEN 1
    ELSE CmpFromTop(a, b, i - 1)

BigCmp(a, b) ==
    IF Len(a) < Len(b) THEN -1
    ELSE IF Len(a) > Len(b) THEN 1
    ELSE CmpFromTop(a, b, Len(a))

RECURSIVE Zeros(_)
Zeros(n) == IF n = 0 THEN <<>> ELSE <<0>> \o Zeros(n - 1)

\* a * 2^k
BigShl(a, k) ==
    IF a = <<>> THEN <<>>
    ELSE Zeros(k \div LimbBits) \o BigMulSmall(a, 2^(k % LimbBits))

\* floor(a / d) for a small divisor d <= Radix, long division from the top limb
RECURSIVE DivSmallFrom(_, _, _, _)
DivSmallFrom(a, d, i, r) ==
    IF i = 0 THEN [q |-> <<>>, r |-> r]
    ELSE LET cur  == r * Radix + a[i]
             rest == DivSmallFrom(a, d, i - 1, cur % d)
         IN  [q |-> rest.q \o <<cur \div d>>, r |-> rest.r]

BigDivSmall(a, d) ==
    LET res == DivSmallFrom(a, d, Len(a), 0)
    IN  [q |-> Trim(res.q), r |-> res.r]

\* floor(a / 2^k)
BigShr(a, k) ==
    LET limbs == k \div LimbBits
    IN  IF limbs >= Len(a) THEN <<>>
        ELSE BigDivSmall(SubSeq(a, limbs + 1, Len(a)), 2^(k % LimbBits)).q

RECURSIVE IntBitLen(_)
IntBitLen(n) == IF n = 0 THEN 0 ELSE 1 + IntBitLen(n \div 2)

BigBitLen(a) ==
    IF a = <<>> THEN 0 ELSE (Len(a) - 1) * LimbBits + IntBitLen(a[Len(a)])

BigIsOdd(a) == a # <<>> /\ a[1] % 2 = 1

RECURSIVE SubBorrow(_, _, _)
\* a - b - c for a >= b + c
SubBorrow(a, b, c) ==
    IF a = <<>> THEN <<>>
    ELSE LET y == IF b = <<>> THEN 0 ELSE Head(b)
             d == Head(a) - y - c
         IN  <<d % Radix>> \o SubBorrow(Tail(a),
                                        IF b = <<>> THEN b ELSE Tail(b),
                                        IF d < 0 THEN 1 ELSE 0)

BigSub(a, b) == Trim(SubBorrow(a, b, 0))

(***************************************************************************)
(* IEEE-754 binary64.  A double is [neg, m, e] with value (-1)^neg m 2^e;  *)
(* a nonzero double has a mantissa m of exactly 53 bits, zero is m = <<>>. *)
(* Every value this program computes lies between 2^-5 and 2^40 in         *)
(* magnitude (or is zero), so overflow, subnormals, infinities and NaN do  *)
(* not arise and are not modelled; -0.0 is not told apart from 0.0, which  *)
(* `<` does not tell apart either.                                         *)
(***************************************************************************)
MantBits == 53

DblZero == [neg |-> FALSE, m |-> <<>>, e |-> 0]

\* the exact value x = [neg, m, e], m of any length, rounded to nearest, ties to even
RoundNearestEven(x) ==
    LET n == BigBitLen(x.m)
    IN  IF n = 0 THEN DblZero
        ELSE IF n <= MantBits
             THEN [neg |-> x.neg, m |-> BigShl(x.m, MantBits - n), e |-> x.e - (MantBits - n)]
        ELSE LET k     == n - MantBits
                 q     == BigShr(x.m, k)
                 \* 2m against (2q+1) 2^k: the discarded bits against one half
                 c     == BigCmp(BigMulSmall(x.m, 2),
                                 BigShl(BigAdd(BigMulSmall(q, 2), <<1>>), k))
                 up    == c = 1 \/ (c = 0 /\ BigIsOdd(q))
                 q1    == IF up THEN BigAdd(q, <<1>>) ELSE q
             IN  IF BigBitLen(q1) > MantBits
                 THEN [neg |-> x.neg, m |-> BigShr(q1, 1), e |-> x.e + k + 1]
                 ELSE [neg |-> x.neg, m |-> q1, e |-> x.e + k]

ExactMul(x, y) ==
    [neg |-> (x.neg # y.neg), m |-> BigMul(x.m, y.m), e |-> x.e + y.e]

ExactAdd(x, y) ==
    LET lo == IF x.e < y.e THEN x.e ELSE y.e
        a  == BigShl(x.m, x.e - lo)
        b  == BigShl(y.m, y.e - lo)
    IN  IF x.neg = y.neg THEN [neg |-> x.neg, m |-> BigAdd(a, b), e |-> lo]
        ELSE IF BigCmp(a, b) >= 0 THEN [neg |-> x.neg, m |-> BigSub(a, b), e |-> lo]
        ELSE [neg |-> y.neg, m |-> BigSub(b, a), e |-> lo]

DblMul(x, y) == RoundNearestEven(ExactMul(x, y))

DblAdd(x, y) == RoundNearestEven(ExactAdd(x, y))

\* int -> double conversion (exact: an int has at most 31 bits)
DblOfInt(n) ==
    IF n < 0 THEN RoundNearestEven([neg |-> TRUE, m |-> BigOfInt(-n), e |-> 0])
    ELSE RoundNearestEven([neg |-> FALSE, m |-> BigOfInt(n), e |-> 0])

\* sign of x - y for exact values: -1, 0, 1
ExactCmp(x, y) ==
    LET d == ExactAdd(x, [y EXCEPT !.neg = ~y.neg])
    IN  IF d.m = <<>> THEN 0 ELSE IF d.neg THEN -1 ELSE 1

DblLess(x, y) == ExactCmp(x, y) = -1

(***************************************************************************)
(* A decimal literal num/den of the source (0.8 is 8/10), converted as the *)
(* compiler converts it: the nearest double.  The quotient is taken to 70  *)
(* fractional bits and a sticky bit records a nonzero remainder, so the    *)
(* final rounding sees on which side of a tie the exact value lies.        *)
(***************************************************************************)
LiteralScale == 70

DblLiteral(num, den) ==
    LET dv == BigDivSmall(BigShl(BigOfInt(num), LiteralScale), den)
        m2 == BigAdd(BigMulSmall(dv.q, 2), IF dv.r = 0 THEN <<>> ELSE <<1>>)
    IN  RoundNearestEven([neg |-> FALSE, m |-> m2, e |-> 0 - LiteralScale - 1])

(***************************************************************************)
(* Program state.                                                          *)
(***************************************************************************)
VARIABLES
    fpContract,      \* build: is a*b + c contracted to a fused multiply-add
    pc,              \* where main() stands
    eof,             \* std::cin has reached the end of its input
    buf,             \* the tokens left unread on the current input line
    make, model, year, type, accidentCount, isCommercial,    \* main's locals
    response,        \* getYesNoInput's local
    vehicle,         \* the Vehicle main constructs
    risk, vehicleId, \* assessVehicleRisk's locals
    riskCategories,  \* InsuranceRiskSystem::riskCategories
    report,          \* the lines printRiskAssessment last wrote
    exitStatus,      \* main's return value: <<>> while running, <<status>> after
    assessed,        \* history: the vehicles assessed so far, with their category
    arg, result      \* argument and result of a function applied on its own

vars == <<fpContract, pc, eof, buf, make, model, year, type, accidentCount,
          isCommercial, response, vehicle, risk, vehicleId, riskCategories,
          report, exitStatus, assessed, arg, result>>

(***************************************************************************)
(* enum class RiskLevel, enum class VehicleType                            *)
(***************************************************************************)
LOW == 0
MEDIUM == 1
HIGH == 2
RiskLevel == {LOW, MEDIUM, HIGH}

CAR == 0
TRUCK == 1
MOTORCYCLE == 2
VehicleType == {CAR, TRUCK, MOTORCYCLE}

\* class Vehicle: the constructor stores its arguments
Vehicle(m, mod, y, t, acc, comm) ==
    [make |-> m, model |-> mod, year |-> y, type |-> t,
     accidentCount |-> acc, isCommercial |-> comm]

(***************************************************************************)
(* CarRiskCalculator                                                       *)
(***************************************************************************)
BASE_RISK == DblLiteral(8, 10)

\* the floating literals of the source: 1.5, 1.0, 0.05, 0.15, 1.2, 1.8
D1_5 == DblLiteral(15, 10)
D1_0 == DblLiteral(1, 1)
D0_05 == DblLiteral(5, 100)
D0_15 == DblLiteral(15, 100)
D1_2 == DblLiteral(12, 10)
D1_8 == DblLiteral(18, 10)

\* a * b + c in double: two roundings, or one when the build contracts it
MulAdd(a, b, c) ==
    IF fpContract THEN RoundNearestEven(ExactAdd(ExactMul(a, b), c))
    ELSE DblAdd(DblMul(a, b), c)

\* a slip: a second base for trucks
calculateBaseRisk_byType(v) ==
    DblMul(BASE_RISK, IF v.isCommercial \/ v.type = TRUCK THEN D1_5 ELSE D1_0)

calculateBaseRisk(v) ==
    DblMul(BASE_RISK, IF v.isCommercial THEN D1_5 ELSE D1_0)

\* a slip: the age and accident coefficients exchanged
applyModifiers_swapped(v, r) ==
    DblMul(DblMul(r, MulAdd(DblOfInt(2024 - v.year), D0_15, D1_0)),
           MulAdd(DblOfInt(v.accidentCount), D0_05, D1_0))

applyModifiers(v, r) ==
    DblMul(DblMul(r, MulAdd(DblOfInt(2024 - v.year), D0_05, D1_0)),
           MulAdd(DblOfInt(v.accidentCount), D0_15, D1_0))

\* RiskCalculatorFactory::createCalculator: a CarRiskCalculator bound to the vehicle
createCalculator(v) == [class |-> "CarRiskCalculator", vehicle |-> v]

\* the virtual call calculator->calculateTotalRisk()
calculateTotalRisk(calculator) ==
    CASE calculator.class = "CarRiskCalculator" ->
            applyModifiers(calculator.vehicle, calculateBaseRisk(calculator.vehicle))

(***************************************************************************)
(* InsuranceRiskSystem                                                     *)
(***************************************************************************)
\* a slip: <= for <, which moves a score on a threshold to the lower band
categorizeRisk_inclusive(score) ==
    IF ~DblLess(D1_2, score) THEN LOW
    ELSE IF ~DblLess(D1_8, score) THEN MEDIUM
    ELSE HIGH

categorizeRisk(score) ==
    IF DblLess(score, D1_2) THEN LOW
    ELSE IF DblLess(score, D1_8) THEN MEDIUM
    ELSE HIGH

\* std::string operator<, the order of the std::map's keys
RECURSIVE StrLess(_, _)
StrLess(a, b) ==
    IF b = <<>> THEN FALSE
    ELSE IF a = <<>> THEN TRUE
    ELSE IF Head(a) # Head(b) THEN Head(a) < Head(b)
    ELSE StrLess(Tail(a), Tail(b))

EmptyMap == [k \in {} |-> LOW]

\* riskCategories[key] = level
MapAssign(m, key, level) ==
    [k \in DOMAIN m \cup {key} |-> IF k = key THEN level ELSE m[k]]

\* the keys of a std::map in iteration order
RECURSIVE InOrder(_)
InOrder(keys) ==
    IF keys = {} THEN <<>>
    ELSE LET first == CHOOSE k \in keys : \A o \in keys \ {k} : StrLess(k, o)
         IN  <<first>> \o InOrder(keys \ {first})

SPACE == 32

\* string vehicleId = vehicle.getMake() + " " + vehicle.getModel()
\* a slip: the make alone as the key
vehicleIdOf_makeOnly(v) == v.make

vehicleIdOf(v) == v.make \o <<SPACE>> \o v.model

\* a slip: riskCategories.insert({vehicleId, ...}), which keeps an existing entry
assessVehicleRisk_insert(m, id, score) ==
    IF id \in DOMAIN m THEN m ELSE MapAssign(m, id, categorizeRisk(score))

\* the statement riskCategories[vehicleId] = categorizeRisk(risk)
assessVehicleRisk(m, id, score) == MapAssign(m, id, categorizeRisk(score))

\* a slip: the switch without its break statements, every case falls through to HIGH
riskLevelStr_fallthrough(level) ==
    CASE level \in {LOW, MEDIUM, HIGH} -> "HIGH"

\* the switch of printRiskAssessment
riskLevelStr(level) ==
    CASE level = LOW -> "LOW"
      [] level = MEDIUM -> "MEDIUM"
      [] level = HIGH -> "HIGH"

\* what printRiskAssessment writes: one Vehicle / Risk Level pair per map entry
printRiskAssessment(m) ==
    LET keys == InOrder(DOMAIN m)
    IN  [i \in 1..Len(keys) |->
            [Vehicle |-> keys[i], RiskLevel |-> riskLevelStr(m[keys[i]])]]

(***************************************************************************)
(* std::cin.  Input arrives in lines.  A line answering a numeric prompt   *)
(* is a sequence of tokens; a token either parses as an int or does not,   *)
(* and a failed extraction stores 0 (C++11).  At the end of input every    *)
(* extraction fails.                                                       *)
(***************************************************************************)
Num(n) == [ok |-> TRUE, n |-> n]
Junk == [ok |-> FALSE, n |-> 0]

NameLines == {<<65>>, <<65, 32, 65>>}                     \* "A", "A A"
YearLines == {<<Junk>>, <<Num(1900)>>, <<Num(1969)>>, <<Num(1970)>>,
              <<Num(2024)>>, <<Num(2025)>>}
TypeLines == {<<Junk>>, <<Num(1)>>, <<Num(2)>>, <<Num(3)>>, <<Num(4)>>,
              <<Num(4), Num(2)>>, <<Num(1), Num(5)>>, <<Num(3), Num(0 - 1)>>,
              <<Num(2), Junk>>}
AccidentLines == {<<Junk>>, <<Num(0 - 1)>>, <<Num(0)>>, <<Num(5)>>}
Answers == {"y", "n", "Y", "N", "x"}

MaxAssess == 2

Indeterminate == "?"

tolower(c) == CASE c = "Y" -> "y" [] c = "N" -> "n" [] OTHER -> c

\* the lines the next formatted extraction can meet: what is left of the current
\* line, else a new line, else (at the end of input) nothing but a failure
Pending(lines) ==
    IF buf # <<>> THEN {buf} ELSE IF eof THEN {<<Junk>>} ELSE lines

\* the characters cin >> response can leave in response
Extracted ==
    IF ~eof THEN Answers
    ELSE IF response = Indeterminate THEN Answers    \* read of an uninitialised char
    ELSE {response}

NoVehicle == Vehicle(<<>>, <<>>, 0, CAR, 0, FALSE)

Locals == <<make, model, year, type, accidentCount, isCommercial>>
Callee == <<risk, vehicleId>>
Store == <<riskCategories, report, assessed>>
Apart == <<fpContract, arg, result>>

Init ==
    /\ fpContract \in BOOLEAN
    /\ pc = "getMake"
    /\ eof = FALSE
    /\ buf = <<>>
    /\ make = <<>> /\ model = <<>> /\ year = 0 /\ type = CAR
    /\ accidentCount = 0 /\ isCommercial = FALSE
    /\ response = Indeterminate
    /\ vehicle = NoVehicle
    /\ risk = DblZero /\ vehicleId = <<>>
    /\ riskCategories = EmptyMap
    /\ report = <<>>
    /\ exitStatus = <<>>
    /\ assessed = <<>>
    /\ arg = <<>> /\ result = <<>>

Reading == {"getMake", "getModel", "getYear", "getType", "getAccidents",
            "getCommercial", "askContinue"}

\* the input ends: from here on every read fails
EndOfInput ==
    /\ pc \in Reading /\ ~eof /\ buf = <<>>
    /\ eof' = TRUE
    /\ UNCHANGED <<pc, buf, Locals, response, vehicle, Callee, Store,
                   exitStatus, Apart>>

\* getline(cin, make)
GetMake(line) ==
    /\ pc = "getMake"
    /\ make' = line
    /\ pc' = "getModel"
    /\ UNCHANGED <<eof, buf, model, year, type, accidentCount, isCommercial,
                   response, vehicle, Callee, Store, exitStatus, Apart>>

\* getline(cin, model)
GetModel(line) ==
    /\ pc = "getModel"
    /\ model' = line
    /\ pc' = "getYear"
    /\ UNCHANGED <<eof, buf, make, year, type, accidentCount, isCommercial,
                   response, vehicle, Callee, Store, exitStatus, Apart>>

\* a slip: the lower bound the message names
yearRejected_1900(t) == ~t.ok \/ t.n < 1900 \/ t.n > 2024

\* a slip: <= and >= for < and >
yearRejected_offByOne(t) == ~t.ok \/ t.n <= 1970 \/ t.n >= 2024

yearRejected(t) == ~t.ok \/ t.n < 1970 \/ t.n > 2024

\* one evaluation of the year loop's condition, and the loop body or the exit
GetYear(line) ==
    /\ pc = "getYear"
    /\ year' = Head(line).n
    /\ buf' = <<>>                        \* cin.ignore(..., '\n') on either path
    /\ IF yearRejected(Head(line))
       THEN pc' = pc
       ELSE pc' = "getType"
    /\ UNCHANGED <<eof, make, model, type, accidentCount, isCommercial,
                   response, vehicle, Callee, Store, exitStatus, Apart>>

typeChosen(t) == t.ok /\ t.n \in {1, 2, 3}

\* one round of getVehicleTypeInput's loop
GetVehicleType(line) ==
    /\ pc = "getType"
    /\ LET t == Head(line)
       IN  IF ~t.ok
           THEN /\ buf' = <<>>            \* cin.clear(); cin.ignore(..., '\n')
                /\ pc' = pc
                /\ type' = type
           ELSE IF typeChosen(t)
           THEN /\ buf' = Tail(line)      \* the rest of the line stays unread
                /\ pc' = "getAccidents"
                /\ type' = CASE t.n = 1 -> CAR [] t.n = 2 -> TRUCK [] t.n = 3 -> MOTORCYCLE
           ELSE /\ buf' = Tail(line)
                /\ pc' = pc
                /\ type' = type
    /\ UNCHANGED <<eof, make, model, year, accidentCount, isCommercial,
                   response, vehicle, Callee, Store, exitStatus, Apart>>

accidentsRejected(t) == ~t.ok \/ t.n < 0

\* one evaluation of the accident loop's condition, and the loop body or the exit
GetAccidents(line) ==
    /\ pc = "getAccidents"
    /\ accidentCount' = Head(line).n
    /\ buf' = <<>>
    /\ IF accidentsRejected(Head(line))
       THEN pc' = pc
       ELSE pc' = "getCommercial"
    /\ UNCHANGED <<eof, make, model, year, type, isCommercial,
                   response, vehicle, Callee, Store, exitStatus, Apart>>

\* one round of getYesNoInput's loop in getYesNoInput("Is this a commercial vehicle")
GetCommercial(c) ==
    /\ pc = "getCommercial"
    /\ IF tolower(c) \in {"y", "n"}
       THEN /\ isCommercial' = (tolower(c) = "y")
            /\ response' = Indeterminate          \* the local is gone
            /\ pc' = "score"
       ELSE /\ response' = tolower(c)
            /\ pc' = pc
            /\ isCommercial' = isCommercial
    /\ UNCHANGED <<eof, buf, make, model, year, type, accidentCount,
                   vehicle, Callee, Store, exitStatus, Apart>>

\* Vehicle vehicle(...); and assessVehicleRisk up to the map update
Score ==
    /\ pc = "score"
    /\ vehicle' = Vehicle(make, model, year, type, accidentCount, isCommercial)
    /\ risk' = calculateTotalRisk(createCalculator(vehicle'))
    /\ vehicleId' = vehicleIdOf(vehicle')
    /\ pc' = "record"
    /\ UNCHANGED <<eof, buf, Locals, response, Store, exitStatus, Apart>>

\* riskCategories[vehicleId] = categorizeRisk(risk); and the return
Record ==
    /\ pc = "record"
    /\ riskCategories' = assessVehicleRisk(riskCategories, vehicleId, risk)
    /\ assessed' = Append(assessed, [make |-> vehicle.make, model |-> vehicle.model,
                                     level |-> categorizeRisk(risk)])
    /\ risk' = DblZero /\ vehicleId' = <<>>
    /\ pc' = "report"
    /\ UNCHANGED <<eof, buf, Locals, response, vehicle, report, exitStatus, Apart>>

\* system.printRiskAssessment(); and the prompt of the next getYesNoInput
Report ==
    /\ pc = "report"
    /\ report' = printRiskAssessment(riskCategories)
    /\ pc' = "askContinue"
    /\ UNCHANGED <<eof, buf, Locals, response, vehicle, Callee, riskCategories,
                   assessed, exitStatus, Apart>>

\* one round of getYesNoInput's loop in getYesNoInput("Do you want to assess another
\* vehicle"), then the loop test of main
AskContinue(c) ==
    /\ pc = "askContinue"
    /\ tolower(c) = "y" => Len(assessed) < MaxAssess
    /\ IF tolower(c) = "y"
       THEN /\ pc' = "getMake"
            /\ response' = Indeterminate
            /\ exitStatus' = exitStatus
            \* the loop body's locals end with the iteration
            /\ make' = <<>> /\ model' = <<>> /\ year' = 0 /\ type' = CAR
            /\ accidentCount' = 0 /\ isCommercial' = FALSE
            /\ vehicle' = NoVehicle
       ELSE IF tolower(c) = "n"
       THEN /\ pc' = "done"
            /\ exitStatus' = <<0>>                 \* return 0
            /\ response' = Indeterminate
            /\ UNCHANGED <<Locals, vehicle>>
       ELSE /\ response' = tolower(c)
            /\ UNCHANGED <<pc, exitStatus, Locals, vehicle>>
    /\ UNCHANGED <<eof, buf, Callee, Store, Apart>>

Next ==
    \/ EndOfInput
    \/ \E line \in (IF eof THEN {<<>>} ELSE NameLines) : GetMake(line)
    \/ \E line \in (IF eof THEN {<<>>} ELSE NameLines) : GetModel(line)
    \/ \E line \in Pending(YearLines) : GetYear(line)
    \/ \E line \in Pending(TypeLines) : GetVehicleType(line)
    \/ \E line \in Pending(AccidentLines) : GetAccidents(line)
    \/ \E c \in Extracted : GetCommercial(c)
    \/ Score
    \/ Record
    \/ Report
    \/ \E c \in Extracted : AskContinue(c)

Spec == Init /\ [][Next]_vars

(***************************************************************************)
(* The session with a user who keeps answering.  main() is sequential: it  *)
(* takes its next step whenever it is not waiting for input.  At a prompt  *)
(* some line eventually arrives, and a valid entry eventually arrives      *)
(* (unless the input ends); at the continue prompt n eventually arrives.   *)
(***************************************************************************)
ValidYear ==
    \E line \in Pending(YearLines) :
        Head(line).ok /\ Head(line).n \in 1970..2024 /\ GetYear(line)

ValidType ==
    \E line \in Pending(TypeLines) :
        Head(line).ok /\ Head(line).n \in 1..3 /\ GetVehicleType(line)

ValidAccidents ==
    \E line \in Pending(AccidentLines) :
        Head(line).ok /\ Head(line).n >= 0 /\ GetAccidents(line)

ValidCommercial ==
    \E c \in {"y", "n", "Y", "N"} : ~eof /\ GetCommercial(c)

AnswerNo ==
    \E c \in {"n", "N"} : ~eof /\ AskContinue(c)

\* the steps of main that wait for nothing: under Next they are exactly the steps
\* Score, Record and Report
Proceeds ==
    \/ pc = "score" /\ pc' = "record"
    \/ pc = "record" /\ pc' = "report"
    \/ pc = "report" /\ pc' = "askContinue"

Fairness ==
    /\ WF_vars(\E line \in (IF eof THEN {<<>>} ELSE NameLines) : GetMake(line))
    /\ WF_vars(\E line \in (IF eof THEN {<<>>} ELSE NameLines) : GetModel(line))
    /\ WF_vars(\E line \in Pending(TypeLines) : GetVehicleType(line))
    /\ WF_vars(\E line \in Pending(AccidentLines) : GetAccidents(line))
    /\ WF_pc(Proceeds)
    /\ WF_vars(ValidYear) /\ WF_vars(ValidType) /\ WF_vars(ValidAccidents)
    /\ WF_vars(ValidCommercial)
    /\ SF_vars(AnswerNo)

LiveSpec == Init /\ [][Next]_vars /\ Fairness

(***************************************************************************)
(* categorizeRisk on its own.  The scores tried are the doubles nearest to *)
(* cents/100 for cents in 1..MaxCents, and each one's two neighbours, one  *)
(* unit in the last place below and above.                                 *)
(***************************************************************************)
MaxCents == 200

\* the double next above d (d > 0)
DblSucc(d) == RoundNearestEven([d EXCEPT !.m = BigAdd(d.m, <<1>>)])

\* the double next below d (d > 0): d less half a unit in the last place when d is a
\* power of two, else d less a unit
DblPred(d) ==
    LET half == BigSub(BigMulSmall(d.m, 2), <<1>>)
    IN  IF BigBitLen(half) <= MantBits
        THEN [d EXCEPT !.m = half, !.e = d.e - 1]
        ELSE [d EXCEPT !.m = BigSub(d.m, <<1>>)]

Sample(cents, ulps) ==
    LET d == DblLiteral(cents, 100)
    IN  IF ulps < 0 THEN DblPred(d) ELSE IF ulps > 0 THEN DblSucc(d) ELSE d

Elsewhere ==
    /\ eof = FALSE /\ buf = <<>>
    /\ make = <<>> /\ model = <<>> /\ year = 0 /\ type = CAR
    /\ accidentCount = 0 /\ isCommercial = FALSE
    /\ response = Indeterminate
    /\ vehicleId = <<>>
    /\ riskCategories = EmptyMap
    /\ report = <<>>
    /\ exitStatus = <<>>
    /\ assessed = <<>>
    /\ result = <<>>

CatInit ==
    /\ fpContract \in BOOLEAN
    /\ pc = "call"
    /\ arg \in [cents : 1..MaxCents, ulps : {0 - 1, 0, 1}]
    /\ risk = Sample(arg.cents, arg.ulps)
    /\ vehicle = NoVehicle
    /\ Elsewhere

CatCall ==
    /\ pc = "call"
    /\ result' = <<categorizeRisk(risk)>>
    /\ pc' = "return"
    /\ UNCHANGED <<fpContract, eof, buf, Locals, response, vehicle, Callee, Store,
                   exitStatus, arg>>

CatSpec == CatInit /\ [][CatCall]_vars

(***************************************************************************)
(* calculateTotalRisk on its own, over every vehicle the input validation  *)
(* lets through with at most MaxAccidents accidents.                       *)
(***************************************************************************)
MaxAccidents == 9

ScoreInit ==
    /\ fpContract \in BOOLEAN
    /\ pc = "call"
    /\ arg = <<>>
    /\ risk = DblZero
    /\ vehicle \in {Vehicle(<<65>>, <<65>>, y, t, a, c) :
                        y \in 1970..2024, t \in {CAR}, a \in 0..MaxAccidents, c \in BOOLEAN}
    /\ Elsewhere

ScoreCall ==
    /\ pc = "call"
    /\ risk' = calculateTotalRisk(createCalculator(vehicle))
    /\ pc' = "return"
    /\ UNCHANGED <<fpContract, eof, buf, Locals, response, vehicle, vehicleId, Store,
                   exitStatus, arg, result>>

ScoreSpec == ScoreInit /\ [][ScoreCall]_vars

(***************************************************************************)
(* Properties.                                                            *)
(***************************************************************************)
\* is the sample (cents, ulps) below the threshold t/100 as written in the source
Below(a, t) == a.cents < t \/ (a.cents = t /\ a.ulps < 0)

\* C1: categorizeRisk returns LOW for a score below 1.2, MEDIUM for a score from 1.2
\* up to but not including 1.8, HIGH for a score of 1.8 or more; a score equal to a
\* threshold falls in the upper band, and every score gets exactly one category.
C1_Bands ==
    pc = "return" =>
        /\ Len(result) = 1 /\ result[1] \in RiskLevel
        /\ (result[1] = LOW) <=> Below(arg, 120)
        /\ (result[1] = MEDIUM) <=> (~Below(arg, 120) /\ Below(arg, 180))
        /\ (result[1] = HIGH) <=> ~Below(arg, 180)

\* a score exactly on the lower threshold has been categorized MEDIUM
C1_Witness ==
    pc = "return" /\ arg.cents = 120 /\ arg.ulps = 0 /\ result = <<MEDIUM>>

Exact(n) == [neg |-> FALSE, m |-> BigOfInt(n), e |-> 0]

\* 1000 times the score as a rational: c (20 + age) (20 + 3 accidents), c = 2 or 3
Thousandths(v) ==
    (IF v.isCommercial THEN 3 ELSE 2) * (20 + (2024 - v.year)) * (20 + 3 * v.accidentCount)

\* |x - y| 2^k <= y, for exact values x and y > 0
Within(x, y, k) ==
    LET d == ExactAdd(x, [y EXCEPT !.neg = TRUE])
    IN  ExactCmp([neg |-> FALSE, m |-> d.m, e |-> d.e + k], y) <= 0

\* the score of the vehicle that differs from v in the commercial flag alone
TwinScore(v) ==
    calculateTotalRisk(createCalculator([v EXCEPT !.isCommercial = ~v.isCommercial]))

CommercialScore == IF vehicle.isCommercial THEN risk ELSE TwinScore(vehicle)
PrivateScore == IF vehicle.isCommercial THEN TwinScore(vehicle) ELSE risk

\* the category of the rational score
RationalCategory(v) ==
    IF Thousandths(v) < 1200 THEN LOW ELSE IF Thousandths(v) < 1800 THEN MEDIUM ELSE HIGH

\* C2 as claimed: the score is the rational c (20 + age) (20 + 3 accidents) / 1000,
\* and the commercial score is exactly 1.5 times the non-commercial one.
C2_Exact ==
    pc = "return" =>
        /\ ExactCmp(ExactMul(risk, Exact(1000)), Exact(Thousandths(vehicle))) = 0
        /\ ExactCmp(ExactMul(CommercialScore, Exact(2)), ExactMul(PrivateScore, Exact(3))) = 0

\* the second half of C2 alone
C2_ExactRatio ==
    pc = "return" =>
        ExactCmp(ExactMul(CommercialScore, Exact(2)), ExactMul(PrivateScore, Exact(3))) = 0

\* C2, amended: for year in 1970..2024 and accidentCount >= 0 the score is base x
\* ageFactor x accidentFactor evaluated in double arithmetic; it differs from the
\* rational c (20 + age) (20 + 3 accidents) / 1000 by at most 2^-49 of it, the
\* commercial score differs from 1.5 times the non-commercial one by at most 2^-48
\* of it, and the score falls in the same band as the rational.
C2_Rounded ==
    pc = "return" =>
        /\ Within(ExactMul(risk, Exact(1000)), Exact(Thousandths(vehicle)), 49)
        /\ Within(ExactMul(CommercialScore, Exact(2)), ExactMul(PrivateScore, Exact(3)), 48)
        /\ categorizeRisk(risk) = RationalCategory(vehicle)

\* Scenario B has been scored: Ford F150, 2014, 2 accidents, commercial, 2.34 rounded
C2_Witness ==
    /\ pc = "return"
    /\ vehicle.year = 2014 /\ vehicle.accidentCount = 2 /\ vehicle.isCommercial
    /\ Within(risk, DblLiteral(234, 100), 49)
    /\ categorizeRisk(risk) = HIGH

\* the identifier of a vehicle: make, a space, model
IdOf(v) == v.make \o <<32>> \o v.model

\* C3: assessVehicleRisk(v) sets the entry for the key make + " " + model to the
\* category of v's score, inserting or overwriting, leaves every other entry as it
\* was, and the key set afterwards is the prior key set plus that key.
C3_Upsert ==
    [][pc = "record" =>
        LET id    == IdOf(vehicle)
            level == categorizeRisk(calculateTotalRisk(createCalculator(vehicle)))
        IN  /\ DOMAIN riskCategories' = DOMAIN riskCategories \cup {id}
            /\ riskCategories'[id] = level
            /\ \A k \in DOMAIN riskCategories \ {id} :
                    riskCategories'[k] = riskCategories[k]]_vars

\* a second vehicle has been recorded under a new key beside the first one
C3_Witness ==
    pc = "report" /\ Len(assessed) = 2 /\ Cardinality(DOMAIN riskCategories) = 2

\* C4: the keys of the record are exactly the identifiers of the vehicles assessed
\* so far, and each key maps to the category of the most recently assessed vehicle
\* with that identifier.
C4_Latest ==
    /\ DOMAIN riskCategories = {IdOf(assessed[i]) : i \in 1..Len(assessed)}
    /\ \A i \in 1..Len(assessed) :
            (\A j \in (i + 1)..Len(assessed) : IdOf(assessed[j]) # IdOf(assessed[i]))
                => riskCategories[IdOf(assessed[i])] = assessed[i].level

\* the same identifier has been assessed twice with different categories
C4_Witness ==
    /\ Len(assessed) = 2
    /\ IdOf(assessed[1]) = IdOf(assessed[2])
    /\ assessed[1].level # assessed[2].level
    /\ riskCategories[IdOf(assessed[2])] = assessed[2].level

\* the label of a category
Label(level) == <<"LOW", "MEDIUM", "HIGH">>[level + 1]

\* C5: two assessed vehicles whose make or model differ appear in the report as two
\* distinct identifier lines, neither overwriting the other.
C5_TwoLines ==
    pc = "askContinue" =>
        \A i, j \in 1..Len(assessed) :
            (assessed[i].make # assessed[j].make \/ assessed[i].model # assessed[j].model)
                => \E p, q \in 1..Len(report) :
                        /\ p # q
                        /\ report[p].Vehicle = IdOf(assessed[i])
                        /\ report[q].Vehicle = IdOf(assessed[j])

Kept(at) == pc = at /\ pc' = at /\ UNCHANGED <<riskCategories, report, assessed>>

\* C6: a year entry that does not parse or lies outside 1970..2024, an accident entry
\* that does not parse or is negative, and any other rejected entry, leaves the
\* program at the same prompt with the record unchanged; the vehicle passed to the
\* scorer has a year in 1970..2024 and a non-negative accident count.
C6_Validated ==
    [][/\ \A line \in YearLines :
            (GetYear(line) /\ (~Head(line).ok \/ Head(line).n \notin 1970..2024))
                => Kept("getYear")
       /\ \A line \in Pending(AccidentLines) :
            (GetAccidents(line) /\ (~Head(line).ok \/ Head(line).n < 0))
                => Kept("getAccidents")
       /\ \A line \in Pending(TypeLines) :
            (GetVehicleType(line) /\ (~Head(line).ok \/ Head(line).n \notin 1..3))
                => Kept("getType")
       /\ \A c \in Answers \ {"y", "n", "Y", "N"} :
            (GetCommercial(c) => Kept("getCommercial"))
                /\ (AskContinue(c) => Kept("askContinue"))
       /\ (pc = "score" /\ pc' = "record")
            => /\ vehicle'.year \in 1970..2024
               /\ vehicle'.accidentCount >= 0
               /\ vehicle' = Vehicle(make, model, year, type, accidentCount, isCommercial)
      ]_vars

\* the year 1969 has been entered and rejected while a record exists
C6_Witness ==
    pc = "getYear" /\ year = 1969 /\ Len(assessed) = 1 /\ DOMAIN riskCategories # {}

Phase(p) ==
    CASE p \in {"getMake", "getModel", "getYear", "getType", "getAccidents",
                "getCommercial"} -> "COLLECT_INPUT"
      [] p = "score" -> "SCORE"
      [] p = "record" -> "RECORD"
      [] p = "report" -> "REPORT"
      [] p = "askContinue" -> "ASK_CONTINUE"
      [] p = "done" -> "TERMINATE"

Order ==
    {<<"COLLECT_INPUT", "COLLECT_INPUT">>, <<"COLLECT_INPUT", "SCORE">>,
     <<"SCORE", "RECORD">>, <<"RECORD", "REPORT">>, <<"REPORT", "ASK_CONTINUE">>,
     <<"ASK_CONTINUE", "ASK_CONTINUE">>, <<"ASK_CONTINUE", "COLLECT_INPUT">>,
     <<"ASK_CONTINUE", "TERMINATE">>}

OrderKept == <<Phase(pc), Phase(pc')>> \in Order

\* the exit status is 0 at TERMINATE, unset before, and never 1
C7_Terminal ==
    /\ pc = "done" <=> exitStatus = <<0>>
    /\ exitStatus # <<1>>

\* C7 without its clause on the answer: the order of the states, exit status 0 at
\* TERMINATE and never 1
C7_Order ==
    [][/\ OrderKept
       /\ pc' = "done" <=> exitStatus' = <<0>>
       /\ exitStatus' # <<1>>]_vars

\* C7: the session runs COLLECT_INPUT -> SCORE -> RECORD -> REPORT -> ASK_CONTINUE ->
\* (COLLECT_INPUT | TERMINATE), no state skipped or reordered; TERMINATE is entered
\* only from ASK_CONTINUE on an answer n or N; the exit status is then 0 and the exit
\* status 1 is never reached.
C7_StateMachine ==
    [][/\ OrderKept
       /\ pc' = "done" <=> exitStatus' = <<0>>
       /\ exitStatus' # <<1>>
       /\ pc' = "done" => /\ pc = "askContinue"
                          /\ ~eof
                          /\ \E c \in {"n", "N"} : AskContinue(c)]_vars

\* C8: the report lists every entry of the record as it stands after the iteration's
\* assessment: one Vehicle / Risk Level pair per key, the entry just recorded and the
\* earlier ones, each level as its label; reporting leaves the record as it was.
C8_Report ==
    [][pc = "report" =>
        /\ riskCategories' = riskCategories
        /\ Len(report') = Cardinality(DOMAIN riskCategories)
        /\ \A k \in DOMAIN riskCategories :
                \E i \in 1..Len(report') :
                    report'[i] = [Vehicle |-> k, RiskLevel |-> Label(riskCategories[k])]
        /\ \A i \in 1..Len(assessed) :
                \E n \in 1..Len(report') : report'[n].Vehicle = IdOf(assessed[i])
        /\ \E n \in 1..Len(report') :
                /\ report'[n].Vehicle = IdOf(vehicle)
                /\ report'[n].RiskLevel =
                      Label(categorizeRisk(calculateTotalRisk(createCalculator(vehicle))))
      ]_vars

\* a report of two entries with different levels has been written
C8_Witness ==
    /\ pc = "askContinue" /\ Len(assessed) = 2 /\ Len(report) = 2
    /\ report[1].RiskLevel # report[2].RiskLevel

\* C9: the score and the recorded category do not depend on the vehicle type: the
\* factory returns the car calculator whatever the type, and a vehicle differing in
\* type alone gets the category recorded, under the same identifier.
C9_TypeBlind ==
    pc = "report" =>
        \A t \in VehicleType :
            LET w == [vehicle EXCEPT !.type = t]
            IN  /\ createCalculator(w).class = "CarRiskCalculator"
                /\ vehicleIdOf(w) = vehicleIdOf(vehicle)
                /\ riskCategories[vehicleIdOf(w)] =
                      categorizeRisk(calculateTotalRisk(createCalculator(w)))

\* a motorcycle has been recorded
C9_Witness ==
    pc = "report" /\ vehicle.type = MOTORCYCLE /\ IdOf(vehicle) \in DOMAIN riskCategories

\* the iteration's vehicle is in the record and in the report
Reported ==
    /\ IdOf(vehicle) \in DOMAIN riskCategories
    /\ \E n \in 1..Len(report) : report[n].Vehicle = IdOf(vehicle)

\* a valid entry at a prompt is accepted at once
Accepts ==
    /\ ValidYear => pc' = "getType"
    /\ ValidType => pc' = "getAccidents"
    /\ ValidAccidents => pc' = "getCommercial"
    /\ ValidCommercial => pc' = "score"
    /\ AnswerNo => pc' = "done"

\* C10: with a user who eventually supplies a valid entry at every prompt, every
\* started iteration reaches ASK_CONTINUE with its vehicle recorded and reported, and
\* with a user who eventually answers n the session reaches TERMINATE; no retry loop
\* rejects a valid entry.  The input ending first is the one way out.
C10_Progress ==
    /\ (pc = "getMake" /\ ~eof) ~> ((pc = "askContinue" /\ Reported) \/ eof)
    /\ <>(pc = "done" \/ eof)
    /\ [][Accepts]_vars

\* the session has ended on the answer n after two assessments
C10_Witness ==
    pc = "done" /\ ~eof /\ Len(assessed) = 2
====
